---------------------------- MODULE Spec2Model ----------------------------
(***************************************************************************)
(* Attached property descriptors (phosphor-properties, src/src/index.ts).  *)
(*                                                                         *)
(* A descriptor (class Property) keeps a value per owner in a module-wide  *)
(* WeakMap from owner to a hash of property id -> value.  get, set and     *)
(* coerce are synchronous; each top-level call is one action here, which   *)
(* runs the whole handler, including the user callbacks it invokes, and    *)
(* records the callbacks in the order they ran (the trace of the call).    *)
(***************************************************************************)
EXTENDS Integers, Sequences, FiniteSets, TLC

VARIABLES
    nextId,     \* the counter closed over by nextPID
    props,      \* the constructed descriptors: pid -> its private fields
    ownerData,  \* the WeakMap: owner -> <<>> (no hash) or <<hash>>
    last,       \* the most recent top-level call and what it did
    env,        \* the version of the module in use, what listeners do and
                \* what the signal library does when one throws
    invoked,    \* the slots get, set or coerce was called for, ever and
                \* since the owner's data was last cleared
    tick        \* the calls made so far of a default factory that counts

vars == <<nextId, props, ownerData, last, env, invoked, tick>>

----------------------------------------------------------------------------
(* Bounds of the model. *)

\* owners are object identities 1..NumOwners
NumOwners == 2

\* set is handed -1 and the numbers 1..MaxVal
MaxVal == 1

\* a default factory that counts is called at most MaxTicks times
MaxTicks == 3

Owners == 1..NumOwners

----------------------------------------------------------------------------
(* JavaScript values: numbers, undefined and NaN. *)

Num(n) == [t |-> "number", n |-> n]

Undefined == [t |-> "undefined", n |-> 0]

NaN == [t |-> "NaN", n |-> 0]

\* the values a caller passes to set: a negative number and positive ones
ArgValues == {Num(0 - 1)} \cup {Num(n) : n \in 1..MaxVal}

\* the === operator: NaN is not equal to itself
StrictEquals(a, b) == a = b /\ a # NaN

\* Math.max(0, v): ToNumber(undefined) is NaN, and NaN is contagious
MathMax0(v) == IF v.t = "number" THEN (IF v.n > 0 THEN v ELSE Num(0)) ELSE NaN

----------------------------------------------------------------------------
(* The user callbacks a descriptor may be configured with.  "none" is an  *)
(* option left out of the options object.                                  *)

\* the literal default of the tests' descriptors
DefaultLiteral == Num(0)

\* what the default factory returns, different from the literal default
FactoryValue == Num(1)

\* where the default factory that counts starts: let tick = 42
TickStart == 42

ValueOptions == {Undefined, DefaultLiteral}

CreateOptions == {"none", "const"}

\* besides these, "tick": create = () => tick++

CoerceOptions == {"none", "max0"}

CompareOptions == {"none", "strict", "always"}

ChangedOptions == {"none", "log"}

NotifyOptions == {"none", "sig"}

NameOptions == {"p"}

AllOptions ==
    [name : NameOptions, value : ValueOptions, create : CreateOptions,
     coerce : CoerceOptions, compare : CompareOptions,
     changed : ChangedOptions, notify : NotifyOptions]

----------------------------------------------------------------------------
(* The record of one callback invocation, in the trace of a call. *)

Event(ev, owner, pid, a, b, res, name) ==
    [ev |-> ev, owner |-> owner, pid |-> pid, a |-> a, b |-> b,
     res |-> res, name |-> name]

\* The state a handler runs on: the WeakMap, the identity of each owner's
\* current hash (gen), the callbacks run so far, and a pending exception.
EnterOn(data) ==
    [data |-> data, gen |-> [o \in Owners |-> 0], trace |-> <<>>,
     thrown |-> FALSE, tick |-> tick]

Enter == EnterOn(ownerData)

Log(st, e) == [st EXCEPT !.trace = Append(@, e)]

\* a callback throws: the statements after its call do not run
Throw(st) == [st EXCEPT !.thrown = TRUE]

----------------------------------------------------------------------------
(* The user functions, by what they compute. *)

\* create: (owner) => c, a constant other than the literal default
CreateFn(kind, owner) == FactoryValue

\* coerce: (owner, value) => Math.max(0, value)
CoerceFn(kind, owner, value) == MathMax0(value)

\* compare: (a, b) => a === b, or (a, b) => true
CompareFn(kind, a, b) == IF kind = "always" THEN TRUE ELSE StrictEquals(a, b)

NoValue == Undefined

----------------------------------------------------------------------------
(* The property store. *)

\* nextPID: 'pid-' + id++
\* a variant of nextPID whose counter stays where it is
nextPIDStuck(id) == "pid-" \o ToString(0)

nextPID(id) == "pid-" \o ToString(id)

\* the hash of an owner that has one
HashOf(data, owner) == data[owner][1]

\* ownerData.get(owner) !== void 0
HasHash(data, owner) == data[owner] # <<>>

\* this._pid in hash, on the owner's current hash
IsSet(data, owner, pid) == HasHash(data, owner) /\ pid \in DOMAIN HashOf(data, owner)

\* a variant of lookupHash that makes a new hash at every call
lookupHashFresh(st, owner) ==
    [st EXCEPT !.data[owner] = << <<>> >>, !.gen[owner] = @ + 1]

\* lookupHash: the owner's hash, created empty when there is none
lookupHash(st, owner) ==
    IF HasHash(st.data, owner)
    THEN st
    ELSE [st EXCEPT !.data[owner] = << <<>> >>]

\* a variant of HashWrite that keeps one hash for all owners
HashWriteAllOwners(st, owner, ref, pid, value) ==
    [st EXCEPT !.data =
        [o \in Owners |->
            IF HasHash(st.data, o)
            THEN << [k \in DOMAIN HashOf(st.data, o) \cup {pid} |->
                        IF k = pid THEN value ELSE HashOf(st.data, o)[k]] >>
            ELSE st.data[o]]]

\* a variant of HashWrite that files a value under the descriptor's name:
\* it lands in the slot of every descriptor of that name
HashWriteByName(st, owner, ref, pid, value) ==
    IF st.gen[owner] = ref /\ HasHash(st.data, owner)
    THEN [st EXCEPT !.data[owner] =
              << [k \in DOMAIN HashOf(st.data, owner) \cup {pid} |->
                     IF props[k].name = props[pid].name
                     THEN value
                     ELSE HashOf(st.data, owner)[k]] >>]
    ELSE st

\* hash[this._pid] = value, on the hash this call looked up when the owner's
\* hash had identity ref: a hash since dropped from the WeakMap is written
\* too, and nobody reads it again.  Where env.steps asks for it, the write
\* is recorded among the callbacks of the call
HashWrite(st, owner, ref, pid, value) ==
    LET s1 == IF env.steps
              THEN Log(st, Event("store", owner, pid, NoValue, value, FALSE,
                                 ""))
              ELSE st
    IN IF s1.gen[owner] = ref /\ HasHash(s1.data, owner)
       THEN [s1 EXCEPT !.data[owner] =
                 << [k \in DOMAIN HashOf(s1.data, owner) \cup {pid} |->
                        IF k = pid THEN value ELSE HashOf(s1.data, owner)[k]] >>]
       ELSE s1

\* a variant of DeleteOwner that empties the whole WeakMap
DeleteEveryOwner(st, owner) ==
    [st EXCEPT !.data = [o \in Owners |-> <<>>],
               !.gen = [o \in Owners |-> st.gen[o] + 1]]

\* ownerData.delete(owner)
DeleteOwner(st, owner) ==
    [st EXCEPT !.data[owner] = <<>>, !.gen[owner] = @ + 1]

----------------------------------------------------------------------------
(* Property: the private helpers. *)

\* a variant of _createValue that prefers the literal default
createValueLiteralFirst(st, p, owner) ==
    IF p.value # Undefined
    THEN [st |-> st, val |-> p.value]
    ELSE IF p.create # "none"
         THEN [st |-> Log(st, Event("create", owner, p.pid, NoValue, NoValue,
                                    FALSE, "")),
               val |-> CreateFn(p.create, owner)]
         ELSE [st |-> st, val |-> p.value]

\* a variant of _createValue that calls a counting factory once and hands
\* out its first result from then on
createValueOnce(st, p, owner) ==
    IF p.create = "tick" /\ st.tick > 0
    THEN [st |-> st, val |-> Num(TickStart)]
    ELSE IF p.create = "tick"
    THEN [st |-> [Log(st, Event("create", owner, p.pid, NoValue, NoValue,
                                FALSE, ""))
                    EXCEPT !.tick = @ + 1],
          val |-> Num(TickStart + st.tick)]
    ELSE IF p.create # "none"
    THEN [st |-> Log(st, Event("create", owner, p.pid, NoValue, NoValue,
                               FALSE, "")),
          val |-> CreateFn(p.create, owner)]
    ELSE [st |-> st, val |-> p.value]

\* a user function that calls clearPropertyData(owner), which is
\* ownerData.delete(owner), before it returns
clearBack(st, owner) ==
    DeleteOwner(Log(st, Event("clear", owner, "", NoValue, NoValue, FALSE,
                              "")),
                owner)

\* _createValue: the factory when there is one, else the literal default;
\* a factory of kind "clear" clears the owner's data before it returns
createValue(st, p, owner) ==
    IF p.create = "clear"
    THEN [st |-> clearBack(Log(st, Event("create", owner, p.pid, NoValue,
                                         NoValue, FALSE, "")),
                           owner),
          val |-> CreateFn(p.create, owner)]
    ELSE IF p.create = "tick"
    THEN [st |-> [Log(st, Event("create", owner, p.pid, NoValue, NoValue,
                                FALSE, ""))
                    EXCEPT !.tick = @ + 1],
          val |-> Num(TickStart + st.tick)]
    ELSE IF p.create # "none"
    THEN [st |-> Log(st, Event("create", owner, p.pid, NoValue, NoValue,
                               FALSE, "")),
          val |-> CreateFn(p.create, owner)]
    ELSE [st |-> st, val |-> p.value]

\* _coerceValue; the record of the call of the coerce function says whether
\* the slot is set at that moment
coerceValue(st, p, owner, value) ==
    IF p.coerce = "throw"
    THEN [st |-> Throw(Log(st, Event("coerce", owner, p.pid, value, NoValue,
                                     IsSet(st.data, owner, p.pid), ""))),
          val |-> NoValue]
    ELSE IF p.coerce = "clear"
    THEN [st |-> clearBack(Log(st, Event("coerce", owner, p.pid, value,
                                         CoerceFn(p.coerce, owner, value),
                                         IsSet(st.data, owner, p.pid), "")),
                           owner),
          val |-> CoerceFn(p.coerce, owner, value)]
    ELSE IF p.coerce # "none"
    THEN [st |-> Log(st, Event("coerce", owner, p.pid, value,
                               CoerceFn(p.coerce, owner, value),
                               IsSet(st.data, owner, p.pid), "")),
          val |-> CoerceFn(p.coerce, owner, value)]
    ELSE [st |-> st, val |-> value]

\* what a call returns: the state it leaves, the value it returns, and the
\* oldValue and newValue it worked with
Result(st, ret, oldValue, newValue) ==
    [st |-> st, ret |-> ret, oldValue |-> oldValue, newValue |-> newValue]

\* a variant of get that coerces the default it materialises
getCoercingDefault(st, p, owner) ==
    LET s1 == lookupHash(st, owner)
        ref == s1.gen[owner]
    IN IF p.pid \in DOMAIN HashOf(s1.data, owner)
       THEN Result(s1, HashOf(s1.data, owner)[p.pid], NoValue, NoValue)
       ELSE LET c == createValue(s1, p, owner)
                n == coerceValue(c.st, p, owner, c.val)
            IN Result(HashWrite(n.st, owner, ref, p.pid, n.val), n.val,
                      NoValue, NoValue)

\* a variant of get that returns the default without storing it
getWithoutStore(st, p, owner) ==
    LET s1 == lookupHash(st, owner)
    IN IF p.pid \in DOMAIN HashOf(s1.data, owner)
       THEN Result(s1, HashOf(s1.data, owner)[p.pid], NoValue, NoValue)
       ELSE LET c == createValue(s1, p, owner)
            IN Result(c.st, c.val, NoValue, NoValue)

\* a variant of get that computes and stores the default at every call
getFresh(st, p, owner) ==
    LET s1 == lookupHash(st, owner)
        c == createValue(s1, p, owner)
    IN Result(HashWrite(c.st, owner, s1.gen[owner], p.pid, c.val), c.val,
              NoValue, NoValue)

get(st, p, owner) ==
    LET s1 == lookupHash(st, owner)
        ref == s1.gen[owner]
    IN IF p.pid \in DOMAIN HashOf(s1.data, owner)
       THEN Result(s1, HashOf(s1.data, owner)[p.pid], NoValue, NoValue)
       ELSE LET c == createValue(s1, p, owner)
            IN Result(HashWrite(c.st, owner, ref, p.pid, c.val), c.val,
                      NoValue, NoValue)

\* a variant of _compareValue that hands the values over in the wrong order
compareValueSwapped(st, p, oldValue, newValue) ==
    IF p.compare # "none"
    THEN [st |-> Log(st, Event("compare", 0, p.pid, newValue, oldValue,
                               CompareFn(p.compare, newValue, oldValue), "")),
          val |-> CompareFn(p.compare, newValue, oldValue)]
    ELSE [st |-> st, val |-> StrictEquals(newValue, oldValue)]

\* _compareValue
compareValue(st, p, oldValue, newValue) ==
    IF p.compare = "throw"
    THEN [st |-> Throw(Log(st, Event("compare", 0, p.pid, oldValue, newValue,
                                     FALSE, ""))),
          val |-> FALSE]
    ELSE IF p.compare # "none"
    THEN [st |-> Log(st, Event("compare", 0, p.pid, oldValue, newValue,
                               CompareFn(p.compare, oldValue, newValue), "")),
          val |-> CompareFn(p.compare, oldValue, newValue)]
    ELSE [st |-> st, val |-> StrictEquals(oldValue, newValue)]

\* what a callback that calls get(owner) on the descriptor reads
readBack(st, p, owner) ==
    LET g == get(st, p, owner)
    IN Log(g.st, Event("read", owner, p.pid, g.ret, NoValue, FALSE, ""))

\* the value a callback of kind "set" sets the property back to
ResetValue == DefaultLiteral

\* Property.set, which callbacks of kind "set" call on the descriptor
RECURSIVE setIn(_, _, _, _, _)

\* a callback that sets the property back to ResetValue when it is told of
\* another new value:  if (newValue !== reset) p.set(owner, reset)
setBack(st, p, owner, newValue) ==
    IF StrictEquals(newValue, ResetValue)
    THEN st
    ELSE setIn(env.variant, st, p, owner, ResetValue).st

\* changed(owner, oldValue, newValue); a callback of kind "get" reads the
\* property back, one of kind "set" sets it back, one of kind "throw"
\* throws
callChanged(st, p, owner, oldValue, newValue) ==
    LET s1 == Log(st, Event("changed", owner, p.pid, oldValue, newValue,
                            FALSE, ""))
    IN IF p.changed = "throw"
       THEN Throw(s1)
       ELSE IF p.changed = "get"
            THEN readBack(s1, p, owner)
            ELSE IF p.changed = "set"
                 THEN setBack(s1, p, owner, newValue)
                 ELSE s1

\* the owners a listener is connected for, on the bound signal of each
Connected == Owners

\* a listener, called with the sender and the arguments of the signal; one
\* of kind "get" reads the property back from the sender; one of kind
\* "throw" throws, which emit passes on or catches as the signal library
\* has it (env.signals)
callSlot(st, r, sender, args) ==
    LET s1 == Log(st, Event("slot", r, args.pid, args.oldValue,
                            args.newValue, args.property, args.name))
    IN IF env.listener = "throw"
       THEN (IF env.signals = "rethrow" THEN Throw(s1) ELSE s1)
       ELSE IF env.listener = "get"
            THEN readBack(s1, props[args.pid], sender)
            ELSE IF env.listener = "set"
                 THEN setBack(s1, props[args.pid], sender, args.newValue)
                 ELSE s1

\* the listeners connected to the signal bound to sender, run in turn
RECURSIVE invokeSlots(_, _, _, _)
invokeSlots(st, receivers, sender, args) ==
    IF receivers = {} \/ st.thrown
    THEN st
    ELSE LET r == CHOOSE x \in receivers : \A y \in receivers : x <= y
         IN invokeSlots(callSlot(st, r, sender, args),
                        receivers \ {r}, sender, args)

\* a variant of emit that does not bind the signal to the owner
emitUnbound(st, owner, args) ==
    invokeSlots(Log(st, Event("emit", owner, args.pid, args.oldValue,
                              args.newValue, args.property, args.name)),
                Connected, owner, args)

\* notify.bind(owner).emit(args): the signal library runs the listeners
\* connected to that sender, and no others.  The record of an emission and
\* of a listener's call says whether the arguments hold the descriptor
\* (args.property); the pid of the record is the descriptor that emitted.
emit(st, owner, args) ==
    invokeSlots(Log(st, Event("emit", owner, args.pid, args.oldValue,
                              args.newValue, args.property, args.name)),
                {r \in Connected : r = owner}, owner, args)

\* a variant of _maybeNotify that emits the signal although the changed
\* callback threw
maybeNotifyEmitAnyway(st, p, owner, oldValue, newValue) ==
    IF p.changed = "none" /\ p.notify = "none"
    THEN st
    ELSE LET c == compareValue(st, p, oldValue, newValue)
         IN IF c.val \/ c.st.thrown
            THEN c.st
            ELSE LET s1 == IF p.changed # "none"
                           THEN callChanged(c.st, p, owner, oldValue, newValue)
                           ELSE c.st
                 IN IF p.notify # "none"
                    THEN [emit([s1 EXCEPT !.thrown = FALSE], owner,
                               [name |-> p.name, pid |-> p.pid,
                                property |-> FALSE,
                                oldValue |-> oldValue, newValue |-> newValue])
                            EXCEPT !.thrown = s1.thrown]
                    ELSE s1

\* a variant of _maybeNotify that emits the signal before the callback
maybeNotifyEmitFirst(st, p, owner, oldValue, newValue) ==
    IF p.changed = "none" /\ p.notify = "none"
    THEN st
    ELSE LET c == compareValue(st, p, oldValue, newValue)
         IN IF c.val
            THEN c.st
            ELSE LET s1 == IF p.notify # "none"
                           THEN emit(c.st, owner,
                                     [name |-> p.name, pid |-> p.pid,
                                      property |-> FALSE,
                                      oldValue |-> oldValue,
                                      newValue |-> newValue])
                           ELSE c.st
                 IN IF p.changed # "none"
                    THEN callChanged(s1, p, owner, oldValue, newValue)
                    ELSE s1

\* a variant of _maybeNotify that does not return on equivalent values
maybeNotifyIgnoringCompare(st, p, owner, oldValue, newValue) ==
    IF p.changed = "none" /\ p.notify = "none"
    THEN st
    ELSE LET c == compareValue(st, p, oldValue, newValue)
             s1 == IF p.changed # "none"
                   THEN callChanged(c.st, p, owner, oldValue, newValue)
                   ELSE c.st
         IN IF p.notify # "none"
            THEN emit(s1, owner,
                      [name |-> p.name, pid |-> p.pid,
                       property |-> FALSE,
                       oldValue |-> oldValue, newValue |-> newValue])
            ELSE s1

\* a variant of _maybeNotify without the return for no listeners
maybeNotifyAlwaysCompare(st, p, owner, oldValue, newValue) ==
    LET c == compareValue(st, p, oldValue, newValue)
    IN IF c.val
       THEN c.st
       ELSE LET s1 == IF p.changed # "none"
                      THEN callChanged(c.st, p, owner, oldValue, newValue)
                      ELSE c.st
            IN IF p.notify # "none"
               THEN emit(s1, owner,
                         [name |-> p.name, pid |-> p.pid,
                          property |-> FALSE,
                          oldValue |-> oldValue, newValue |-> newValue])
               ELSE s1

\* _maybeNotify
maybeNotify(st, p, owner, oldValue, newValue) ==
    IF p.changed = "none" /\ p.notify = "none"
    THEN st
    ELSE LET c == compareValue(st, p, oldValue, newValue)
         IN IF c.val \/ c.st.thrown
            THEN c.st
            ELSE LET s1 == IF p.changed # "none"
                           THEN callChanged(c.st, p, owner, oldValue, newValue)
                           ELSE c.st
                 IN IF p.notify # "none" /\ ~s1.thrown
                    THEN emit(s1, owner,
                              [name |-> p.name, pid |-> p.pid,
                               property |-> FALSE,
                               oldValue |-> oldValue, newValue |-> newValue])
                    ELSE s1

----------------------------------------------------------------------------
(* Property: set and coerce. *)

\* a variant of the oldValue resolution that skips the default factory
resolveOldLiteral(st, p, owner) ==
    LET s1 == lookupHash(st, owner)
        ref == s1.gen[owner]
    IN IF p.pid \in DOMAIN HashOf(s1.data, owner)
       THEN [st |-> s1, ref |-> ref, val |-> HashOf(s1.data, owner)[p.pid]]
       ELSE [st |-> HashWrite(s1, owner, ref, p.pid, p.value),
             ref |-> ref, val |-> p.value]

\* a variant of the oldValue resolution that computes the default of a set
\* slot too
resolveOldRecomputing(st, p, owner) ==
    LET s1 == lookupHash(st, owner)
        ref == s1.gen[owner]
        c == createValue(s1, p, owner)
    IN IF p.pid \in DOMAIN HashOf(s1.data, owner)
       THEN [st |-> c.st, ref |-> ref, val |-> HashOf(s1.data, owner)[p.pid]]
       ELSE [st |-> HashWrite(c.st, owner, ref, p.pid, c.val),
             ref |-> ref, val |-> c.val]

\* the oldValue of set and coerce: the stored value, or the default, which
\* is stored
resolveOld(st, p, owner) ==
    LET s1 == lookupHash(st, owner)
        ref == s1.gen[owner]
    IN IF p.pid \in DOMAIN HashOf(s1.data, owner)
       THEN [st |-> s1, ref |-> ref, val |-> HashOf(s1.data, owner)[p.pid]]
       ELSE LET c == createValue(s1, p, owner)
            IN [st |-> HashWrite(c.st, owner, ref, p.pid, c.val),
                ref |-> ref, val |-> c.val]

\* a variant of set that stores the new value after telling of it
setNotifyFirst(st, p, owner, value) ==
    LET o == resolveOld(st, p, owner)
        n == coerceValue(o.st, p, owner, value)
        s3 == maybeNotify(n.st, p, owner, o.val, n.val)
    IN Result(HashWrite(s3, owner, o.ref, p.pid, n.val), NoValue, o.val, n.val)

\* a variant of set that stores the new value only when it is a change
setIfChanged(st, p, owner, value) ==
    LET o == resolveOld(st, p, owner)
        n == coerceValue(o.st, p, owner, value)
        c == compareValue(n.st, p, o.val, n.val)
    IN IF c.val
       THEN Result(n.st, NoValue, o.val, n.val)
       ELSE Result(maybeNotify(HashWrite(n.st, owner, o.ref, p.pid, n.val),
                               p, owner, o.val, n.val),
                   NoValue, o.val, n.val)

\* a variant of set that compares the old value with the value it was
\* handed, not with the coerced one
setComparingCandidate(st, p, owner, value) ==
    LET o == resolveOld(st, p, owner)
        n == coerceValue(o.st, p, owner, value)
        s3 == HashWrite(n.st, owner, o.ref, p.pid, n.val)
    IN Result(maybeNotify(s3, p, owner, o.val, value), NoValue, o.val, n.val)

\* a variant of set that stores the value it was handed before it coerces
setStoreFirst(st, p, owner, value) ==
    LET o == resolveOld(st, p, owner)
        s1 == HashWrite(o.st, owner, o.ref, p.pid, value)
        n == coerceValue(s1, p, owner, value)
        s3 == HashWrite(n.st, owner, o.ref, p.pid, n.val)
    IN IF n.st.thrown
       THEN Result(n.st, NoValue, o.val, NoValue)
       ELSE Result(maybeNotify(s3, p, owner, o.val, n.val),
                   NoValue, o.val, n.val)

\* a variant of set that puts the old value back when a callback throws
setRollingBack(st, p, owner, value) ==
    LET o == resolveOld(st, p, owner)
        n == coerceValue(o.st, p, owner, value)
        s3 == HashWrite(n.st, owner, o.ref, p.pid, n.val)
        s4 == maybeNotify(s3, p, owner, o.val, n.val)
    IN IF n.st.thrown
       THEN Result(n.st, NoValue, o.val, NoValue)
       ELSE IF s4.thrown
            THEN Result(HashWrite(s4, owner, o.ref, p.pid, o.val),
                        NoValue, o.val, n.val)
            ELSE Result(s4, NoValue, o.val, n.val)

set(st, p, owner, value) ==
    LET o == resolveOld(st, p, owner)
        n == coerceValue(o.st, p, owner, value)
        s3 == HashWrite(n.st, owner, o.ref, p.pid, n.val)
    IN IF n.st.thrown
       THEN Result(n.st, NoValue, o.val, NoValue)
       ELSE Result(maybeNotify(s3, p, owner, o.val, n.val),
                   NoValue, o.val, n.val)

\* a variant of coerce that compares the new value with the default
coerceAgainstDefault(st, p, owner) ==
    LET o == resolveOld(st, p, owner)
        n == coerceValue(o.st, p, owner, o.val)
        s3 == HashWrite(n.st, owner, o.ref, p.pid, n.val)
    IN Result(maybeNotify(s3, p, owner,
                          IF p.create # "none" THEN CreateFn(p.create, owner)
                                               ELSE p.value,
                          n.val),
              NoValue, o.val, n.val)

\* a variant of coerce that compares and tells before it stores
coerceNotifyFirst(st, p, owner) ==
    LET o == resolveOld(st, p, owner)
        n == coerceValue(o.st, p, owner, o.val)
        s3 == maybeNotify(n.st, p, owner, o.val, n.val)
    IN Result(HashWrite(s3, owner, o.ref, p.pid, n.val), NoValue, o.val, n.val)

\* a variant of coerce that stores the coerced value and tells nobody
coerceQuiet(st, p, owner) ==
    LET o == resolveOld(st, p, owner)
        n == coerceValue(o.st, p, owner, o.val)
    IN Result(HashWrite(n.st, owner, o.ref, p.pid, n.val),
              NoValue, o.val, n.val)

\* a variant of coerce that starts from the default, whatever is stored
coerceFromDefault(st, p, owner) ==
    LET s1 == lookupHash(st, owner)
        c == createValue(s1, p, owner)
        n == coerceValue(c.st, p, owner, c.val)
        s3 == HashWrite(n.st, owner, s1.gen[owner], p.pid, n.val)
    IN Result(maybeNotify(s3, p, owner, c.val, n.val), NoValue, c.val, n.val)

coerce(st, p, owner) ==
    LET o == resolveOld(st, p, owner)
        n == coerceValue(o.st, p, owner, o.val)
        s3 == HashWrite(n.st, owner, o.ref, p.pid, n.val)
    IN IF n.st.thrown
       THEN Result(n.st, NoValue, o.val, NoValue)
       ELSE Result(maybeNotify(s3, p, owner, o.val, n.val),
                   NoValue, o.val, n.val)

\* a variant of clearPropertyData that leaves the owner's entry in place
clearPropertyDataKeeping(st, owner) == st

\* a variant of clearPropertyData that replaces the owner's hash by an
\* empty one
clearPropertyDataEmptying(st, owner) ==
    [st EXCEPT !.data[owner] = << <<>> >>, !.gen[owner] = @ + 1]

\* a variant of the second version's _maybeNotify whose arguments leave
\* the descriptor out
maybeNotifyChangedSignalAnonymous(st, p, owner, oldValue, newValue) ==
    LET c == compareValue(st, p, oldValue, newValue)
    IN IF c.val \/ c.st.thrown
       THEN c.st
       ELSE LET s1 == IF p.changed # "none"
                      THEN callChanged(c.st, p, owner, oldValue, newValue)
                      ELSE c.st
            IN IF s1.thrown
               THEN s1
               ELSE emit(s1, owner,
                         [name |-> "", pid |-> p.pid, property |-> FALSE,
                          oldValue |-> oldValue, newValue |-> newValue])

\* a variant of the second version's _maybeNotify that announces a change
\* only for a descriptor with a changed callback
maybeNotifyChangedSignalIfCallback(st, p, owner, oldValue, newValue) ==
    IF p.changed = "none"
    THEN st
    ELSE LET c == compareValue(st, p, oldValue, newValue)
         IN IF c.val \/ c.st.thrown
            THEN c.st
            ELSE emit(callChanged(c.st, p, owner, oldValue, newValue), owner,
                      [name |-> "", pid |-> p.pid, property |-> TRUE,
                       oldValue |-> oldValue, newValue |-> newValue])

\* the second version of the module, where every change is announced on
\* the static Property.changedSignal bound to the owner, with the
\* descriptor itself in place of a name
maybeNotifyChangedSignal(st, p, owner, oldValue, newValue) ==
    LET c == compareValue(st, p, oldValue, newValue)
    IN IF c.val \/ c.st.thrown
       THEN c.st
       ELSE LET s1 == IF p.changed # "none"
                      THEN callChanged(c.st, p, owner, oldValue, newValue)
                      ELSE c.st
            IN IF s1.thrown
               THEN s1
               ELSE emit(s1, owner,
                         [name |-> "", pid |-> p.pid,
                          property |-> TRUE,
                          oldValue |-> oldValue, newValue |-> newValue])

\* the oldValue of set and coerce in the second version: the stored value,
\* or the default, which is not stored
resolveOldChangedSignal(st, p, owner) ==
    LET s1 == lookupHash(st, owner)
        ref == s1.gen[owner]
    IN IF p.pid \in DOMAIN HashOf(s1.data, owner)
       THEN [st |-> s1, ref |-> ref, val |-> HashOf(s1.data, owner)[p.pid]]
       ELSE LET c == createValue(s1, p, owner)
            IN [st |-> c.st, ref |-> ref, val |-> c.val]

setChangedSignal(st, p, owner, value) ==
    LET o == resolveOldChangedSignal(st, p, owner)
        n == coerceValue(o.st, p, owner, value)
        s3 == HashWrite(n.st, owner, o.ref, p.pid, n.val)
    IN IF n.st.thrown
       THEN Result(n.st, NoValue, o.val, NoValue)
       ELSE Result(maybeNotifyChangedSignal(s3, p, owner, o.val, n.val),
                   NoValue, o.val, n.val)

coerceChangedSignal(st, p, owner) ==
    LET o == resolveOldChangedSignal(st, p, owner)
        n == coerceValue(o.st, p, owner, o.val)
        s3 == HashWrite(n.st, owner, o.ref, p.pid, n.val)
    IN IF n.st.thrown
       THEN Result(n.st, NoValue, o.val, NoValue)
       ELSE Result(maybeNotifyChangedSignal(s3, p, owner, o.val, n.val),
                   NoValue, o.val, n.val)

\* a variant of setIn that runs the first version's set in both
setInFirstVersion(variant, st, p, owner, value) == set(st, p, owner, value)

\* set and coerce of the version in use
setIn(variant, st, p, owner, value) ==
    IF variant = "notify"
    THEN set(st, p, owner, value)
    ELSE setChangedSignal(st, p, owner, value)

\* a variant of coerceIn that leaves the default of an unset slot as it
\* is, as get does
coerceInSparingDefault(variant, st, p, owner) ==
    IF IsSet(st.data, owner, p.pid)
    THEN (IF variant = "notify"
          THEN coerce(st, p, owner)
          ELSE coerceChangedSignal(st, p, owner))
    ELSE LET g == get(st, p, owner)
         IN Result(g.st, NoValue, g.ret, g.ret)

coerceIn(variant, st, p, owner) ==
    IF variant = "notify"
    THEN coerce(st, p, owner)
    ELSE coerceChangedSignal(st, p, owner)

\* clearPropertyData
clearPropertyData(st, owner) == DeleteOwner(st, owner)

\* new Property(options): the private fields of the descriptor, and in own
\* the properties that assignments from outside the class added to it
Property(options, id) ==
    [pid |-> nextPID(id), name |-> options.name, value |-> options.value,
     create |-> options.create, coerce |-> options.coerce,
     compare |-> options.compare, changed |-> options.changed,
     notify |-> options.notify, own |-> [key \in {} |-> ""]]

\* the accessors the class defines: get name(), without a setter
Accessors == {"name"}

\* p[key], read from outside the class: the getter, or the own property,
\* or undefined
read(p, key) ==
    IF key \in Accessors
    THEN p.name
    ELSE IF key \in DOMAIN p.own THEN p.own[key] ELSE "undefined"

\* a variant of assign on an object without accessors
assignPlain(p, key, value) ==
    [p |-> [p EXCEPT !.own = (key :> value) @@ @], thrown |-> FALSE]

\* p[key] = value from outside the class, under 'use strict': a TypeError
\* for an accessor without a setter, a new own property otherwise
assign(p, key, value) ==
    IF key \in Accessors
    THEN [p |-> p, thrown |-> TRUE]
    ELSE [p |-> [p EXCEPT !.own = (key :> value) @@ @], thrown |-> FALSE]

----------------------------------------------------------------------------
(* The top-level calls. *)

Pids == DOMAIN props

\* the record of a call: what it was handed, what it did, whether it threw
\* and, of clearPropertyData, the entry it deleted
Call(op, owner, pid, arg, r) ==
    [op |-> op, owner |-> owner, pid |-> pid, arg |-> arg, ret |-> r.ret,
     oldValue |-> r.oldValue, newValue |-> r.newValue, trace |-> r.st.trace,
     thrown |-> r.st.thrown, dropped |-> <<>>]

NoCall ==
    [op |-> "none", owner |-> 0, pid |-> "", arg |-> NoValue, ret |-> NoValue,
     oldValue |-> NoValue, newValue |-> NoValue, trace |-> <<>>,
     thrown |-> FALSE, dropped |-> <<>>]

\* the first version of the module in the source file (notify option) and
\* the second (Property.changedSignal)
Variants == {"notify", "changedSignal"}

\* a slot was the target of get, set or coerce; the calls are recorded
\* only where env.history asks for it
Touch(owner, pid) ==
    IF env.history
    THEN [ever |-> invoked.ever \cup {<<owner, pid>>},
          sinceClear |-> invoked.sinceClear \cup {<<owner, pid>>}]
    ELSE invoked

\* the owner's data was cleared
Untouch(owner) ==
    [invoked EXCEPT !.sinceClear = {x \in @ : x[1] # owner}]

\* no call yet, on an empty WeakMap
InitStore ==
    /\ ownerData = [o \in Owners |-> <<>>]
    /\ last = NoCall
    /\ invoked = [ever |-> {}, sinceClear |-> {}]
    /\ tick = 0

Init ==
    /\ \E options \in AllOptions :
          props = (nextPID(0) :> Property(options, 0))
    /\ nextId = 1
    /\ env = [variant |-> "notify", listener |-> "log", signals |-> "rethrow",
           history |-> FALSE, steps |-> FALSE]
    /\ InitStore

DoGet(owner, pid) ==
    \E r \in {get(Enter, props[pid], owner)} :
       /\ r.st.tick <= MaxTicks
       /\ ownerData' = r.st.data
       /\ tick' = r.st.tick
       /\ last' = Call("get", owner, pid, NoValue, r)
       /\ invoked' = Touch(owner, pid)
       /\ UNCHANGED <<nextId, props, env>>

DoSet(owner, pid, value) ==
    \E r \in {setIn(env.variant, Enter, props[pid], owner, value)} :
       /\ r.st.tick <= MaxTicks
       /\ ownerData' = r.st.data
       /\ tick' = r.st.tick
       /\ last' = Call("set", owner, pid, value, r)
       /\ invoked' = Touch(owner, pid)
       /\ UNCHANGED <<nextId, props, env>>

DoCoerce(owner, pid) ==
    \E r \in {coerceIn(env.variant, Enter, props[pid], owner)} :
       /\ r.st.tick <= MaxTicks
       /\ ownerData' = r.st.data
       /\ tick' = r.st.tick
       /\ last' = Call("coerce", owner, pid, NoValue, r)
       /\ invoked' = Touch(owner, pid)
       /\ UNCHANGED <<nextId, props, env>>

DoClear(owner) ==
    LET s == clearPropertyData(Enter, owner)
    IN /\ ownerData' = s.data
       /\ last' = [Call("clear", owner, "", NoValue,
                        Result(s, NoValue, NoValue, NoValue))
                      EXCEPT !.dropped = IF env.history
                                         THEN ownerData[owner]
                                         ELSE <<>>]
       /\ invoked' = Untouch(owner)
       /\ UNCHANGED <<nextId, props, env, tick>>

Next ==
    \/ \E owner \in Owners, pid \in Pids : DoGet(owner, pid)
    \/ \E owner \in Owners, pid \in Pids, value \in ArgValues :
          DoSet(owner, pid, value)
    \/ \E owner \in Owners, pid \in Pids : DoCoerce(owner, pid)
    \/ \E owner \in Owners : DoClear(owner)

Spec == Init /\ [][Next]_vars

----------------------------------------------------------------------------
(* Two descriptors constructed with the same name, on a module that       *)
(* records which slots were asked for.                                     *)

\* the options the two descriptors are constructed with: the first has a
\* literal default only, the second a default factory beside it
TwoOptions(create) ==
    [name |-> "p", value |-> DefaultLiteral, create |-> create,
     coerce |-> "max0", compare |-> "strict", changed |-> "log",
     notify |-> "sig"]

\* the value set is handed: a number that is the default of neither
TwoArgs == {Num(MaxVal + 1)}

InitTwo ==
    /\ props = (nextPID(0) :> Property(TwoOptions("none"), 0)) @@
               (nextPID(1) :> Property(TwoOptions("const"), 1))
    /\ nextId = 2
    /\ env = [variant |-> "notify", listener |-> "log", signals |-> "rethrow",
           history |-> TRUE, steps |-> FALSE]
    /\ InitStore

NextTwo ==
    \/ \E owner \in Owners, pid \in Pids : DoGet(owner, pid)
    \/ \E owner \in Owners, pid \in Pids, value \in TwoArgs :
          DoSet(owner, pid, value)
    \/ \E owner \in Owners, pid \in Pids : DoCoerce(owner, pid)
    \/ \E owner \in Owners : DoClear(owner)

SpecTwo == InitTwo /\ [][NextTwo]_vars

----------------------------------------------------------------------------
(* Two descriptors constructed alike, with one name and one signal, in     *)
(* both versions of the module.                                            *)

SharedOptions ==
    [name |-> "p", value |-> DefaultLiteral, create |-> "none",
     coerce |-> "max0", compare |-> "strict", changed |-> "log",
     notify |-> "sig"]

InitShared ==
    /\ props = (nextPID(0) :> Property(SharedOptions, 0)) @@
               (nextPID(1) :> Property(SharedOptions, 1))
    /\ nextId = 2
    /\ \E variant \in Variants :
          env = [variant |-> variant, listener |-> "log",
                 signals |-> "rethrow", history |-> FALSE, steps |-> FALSE]
    /\ InitStore

SpecShared == InitShared /\ [][NextTwo]_vars

----------------------------------------------------------------------------
(* A descriptor whose default factory returns a new value at every call,   *)
(* in both versions of the module.                                         *)

FactoryOptions ==
    [name : NameOptions, value : ValueOptions, create : {"tick"},
     coerce : {"none"}, compare : {"strict"}, changed : {"log"},
     notify : {"sig"}]

InitFactory ==
    /\ \E options \in FactoryOptions :
          props = (nextPID(0) :> Property(options, 0))
    /\ nextId = 1
    /\ \E variant \in Variants :
          env = [variant |-> variant, listener |-> "log",
                 signals |-> "rethrow", history |-> FALSE, steps |-> FALSE]
    /\ InitStore

SpecFactory == InitFactory /\ [][Next]_vars

----------------------------------------------------------------------------
(* Both versions of the module, on descriptors that announce changes.      *)

VersionOptions ==
    {o \in AllOptions : o.compare # "none" /\ o.notify = "sig"}

InitVersions ==
    /\ \E options \in VersionOptions :
          props = (nextPID(0) :> Property(options, 0))
    /\ nextId = 1
    /\ \E variant \in Variants :
          env = [variant |-> variant, listener |-> "log",
                 signals |-> "rethrow", history |-> FALSE, steps |-> FALSE]
    /\ InitStore

SpecVersions == InitVersions /\ [][Next]_vars

----------------------------------------------------------------------------
(* Callbacks that call back into the descriptor: a changed callback and a  *)
(* listener that read the property with get(owner).                        *)

ReenterOptions ==
    [name : NameOptions, value : ValueOptions, create : CreateOptions,
     coerce : CoerceOptions, compare : {"strict"}, changed : {"none", "get"},
     notify : NotifyOptions]

InitReenter ==
    /\ \E options \in ReenterOptions :
          props = (nextPID(0) :> Property(options, 0))
    /\ nextId = 1
    /\ \E variant \in Variants :
          env = [variant |-> variant, listener |-> "get", signals |-> "rethrow",
                 history |-> FALSE, steps |-> FALSE]
    /\ InitStore

SpecReenter == InitReenter /\ [][Next]_vars

----------------------------------------------------------------------------
(* Callbacks that throw, under a signal library that passes a listener's   *)
(* exception on to the caller of emit and under one that catches it.       *)

ThrowOptions ==
    [name : NameOptions, value : {DefaultLiteral}, create : {"none"},
     coerce : {"none", "max0", "throw"}, compare : {"strict", "throw"},
     changed : {"log", "throw"}, notify : {"sig"}]

\* what emit does with the exception of a listener
SignalOptions == {"rethrow", "catch"}

InitThrow ==
    /\ \E options \in ThrowOptions :
          props = (nextPID(0) :> Property(options, 0))
    /\ nextId = 1
    /\ \E variant \in Variants, listener \in {"log", "throw"},
          signals \in SignalOptions :
          /\ listener = "log" => signals = "rethrow"
          /\ env = [variant |-> variant, listener |-> listener,
                    signals |-> signals, history |-> FALSE, steps |-> FALSE]
    /\ InitStore

SpecThrow == InitThrow /\ [][Next]_vars

----------------------------------------------------------------------------
(* Descriptors constructed while the program runs: the module is loaded    *)
(* with its id counter at 0 and no descriptor.                             *)

\* how many descriptors are constructed
MaxProps == 2

ConstructOptions ==
    {[name |-> "p", value |-> DefaultLiteral, create |-> "none",
      coerce |-> "none", compare |-> "strict", changed |-> "log",
      notify |-> "sig"]}

\* the value set is called with
ConstructArgs == {DefaultLiteral}

InitConstruct ==
    /\ props = [pid \in {} |-> 0]
    /\ nextId = 0
    /\ env = [variant |-> "notify", listener |-> "log", signals |-> "rethrow",
              history |-> FALSE, steps |-> FALSE]
    /\ InitStore

\* new Property(options), while fewer than most descriptors exist; the
\* field initialiser _pid = nextPID() takes the counter and increments it
DoConstruct(options, most) ==
    /\ nextId < most
    /\ props' = (nextPID(nextId) :> Property(options, nextId)) @@ props
    /\ nextId' = nextId + 1
    /\ last' = [NoCall EXCEPT !.op = "new", !.pid = nextPID(nextId),
                              !.arg = options]
    /\ UNCHANGED <<ownerData, env, invoked, tick>>

NextConstruct ==
    \/ \E options \in ConstructOptions : DoConstruct(options, MaxProps)
    \/ \E owner \in Owners, pid \in Pids : DoGet(owner, pid)
    \/ \E owner \in Owners, pid \in Pids, value \in ConstructArgs :
          DoSet(owner, pid, value)
    \/ \E owner \in Owners, pid \in Pids : DoCoerce(owner, pid)
    \/ \E owner \in Owners : DoClear(owner)

SpecConstruct == InitConstruct /\ [][NextConstruct]_vars

----------------------------------------------------------------------------
(* One descriptor, constructed while the program runs, whose properties    *)
(* are read and assigned from outside the class.                           *)

AssignOptions ==
    [name : NameOptions, value : {DefaultLiteral}, create : {"none"},
     coerce : {"none"}, compare : {"strict"}, changed : {"log"},
     notify : NotifyOptions]

\* p.name = 'q' and p.notify = null
Assignments == {<<"name", "q">>, <<"notify", "null">>}

\* the signal handed to the constructor, as a read of it gives it
SignalOf(options) ==
    IF options.notify = "none" THEN "undefined" ELSE options.notify

DoAssign(pid, key, value) ==
    \E r \in {assign(props[pid], key, value)} :
       /\ props' = [props EXCEPT ![pid] = r.p]
       /\ last' = [NoCall EXCEPT !.op = "assign", !.pid = pid,
                                 !.arg = [key |-> key, value |-> value],
                                 !.thrown = r.thrown]
       /\ UNCHANGED <<nextId, ownerData, env, invoked, tick>>

NextAssign ==
    \/ \E options \in AssignOptions : DoConstruct(options, 1)
    \/ \E pid \in Pids, a \in Assignments : DoAssign(pid, a[1], a[2])
    \/ Next

SpecAssign == InitConstruct /\ [][NextAssign]_vars

----------------------------------------------------------------------------
(* Both versions of the module, with the writes of a call recorded among   *)
(* its callbacks.                                                          *)

InitSteps ==
    /\ \E options \in VersionOptions :
          props = (nextPID(0) :> Property(options, 0))
    /\ nextId = 1
    /\ \E variant \in Variants :
          env = [variant |-> variant, listener |-> "log",
                 signals |-> "rethrow", history |-> FALSE, steps |-> TRUE]
    /\ InitStore

SpecSteps == InitSteps /\ [][Next]_vars

----------------------------------------------------------------------------
(* Callbacks that call set on the slot they are told about: a changed      *)
(* callback and a listener that set the property back to ResetValue.       *)

SetBackOptions ==
    [name : NameOptions, value : {DefaultLiteral}, create : {"none"},
     coerce : CoerceOptions, compare : {"strict"},
     changed : {"none", "log", "set"}, notify : {"sig"}]

InitSetBack ==
    /\ \E options \in SetBackOptions :
          props = (nextPID(0) :> Property(options, 0))
    /\ nextId = 1
    /\ \E variant \in Variants, listener \in {"log", "set"} :
          env = [variant |-> variant, listener |-> listener,
                 signals |-> "rethrow", history |-> FALSE, steps |-> FALSE]
    /\ InitStore

SpecSetBack == InitSetBack /\ [][Next]_vars

----------------------------------------------------------------------------
(* User functions that call clearPropertyData(owner) on the owner they are *)
(* called for: a default factory and a coerce function.                    *)

ClearBackOptions ==
    [name : NameOptions, value : {DefaultLiteral},
     create : {"none", "const", "clear"}, coerce : {"none", "max0", "clear"},
     compare : {"strict"}, changed : {"log"}, notify : {"sig"}]

InitClearBack ==
    /\ \E options \in ClearBackOptions :
          props = (nextPID(0) :> Property(options, 0))
    /\ nextId = 1
    /\ \E variant \in Variants :
          env = [variant |-> variant, listener |-> "log",
                 signals |-> "rethrow", history |-> FALSE, steps |-> FALSE]
    /\ InitStore

SpecClearBack == InitClearBack /\ [][Next]_vars

----------------------------------------------------------------------------
(* A descriptor with a default factory and a coerce function that may      *)
(* throw, in both versions of the module.                                  *)

FactoryThrowOptions ==
    [name : NameOptions, value : {DefaultLiteral}, create : {"const"},
     coerce : {"none", "max0", "throw"}, compare : {"strict"},
     changed : {"log"}, notify : {"sig"}]

InitFactoryThrow ==
    /\ \E options \in FactoryThrowOptions :
          props = (nextPID(0) :> Property(options, 0))
    /\ nextId = 1
    /\ \E variant \in Variants :
          env = [variant |-> variant, listener |-> "log",
                 signals |-> "rethrow", history |-> FALSE, steps |-> FALSE]
    /\ InitStore

SpecFactoryThrow == InitFactoryThrow /\ [][Next]_vars

----------------------------------------------------------------------------
(* Reading the record of a call. *)

\* the callbacks of the given kinds in a trace, in the order they ran
Sel(tr, kinds) == SelectSeq(tr, LAMBDA e : e.ev \in kinds)

\* what was done in a trace, step by step
Kinds(tr) == [i \in 1..Len(tr) |-> tr[i].ev]

\* the descriptor of the most recent call
P == props[last.pid]

IsWrite(call) == call.op \in {"set", "coerce"}

\* what the equality predicate of descriptor p answers on (a, b)
Equivalent(p, a, b) ==
    IF p.compare = "none" THEN StrictEquals(a, b) ELSE CompareFn(p.compare, a, b)

\* the value stored in a set slot
Stored(data, owner, pid) == HashOf(data, owner)[pid]

\* the default of descriptor p for an owner
DefaultOf(p, owner) ==
    IF p.create # "none" THEN CreateFn(p.create, owner) ELSE p.value

\* the arguments a listener was handed, from the record of its call
ArgsOf(e) ==
    [property |-> IF e.res THEN e.pid ELSE "", name |-> e.name,
     oldValue |-> e.a, newValue |-> e.b]

\* the callback record e is of a call that threw out of the handler
Threw(p, e) ==
    \/ e.ev = "coerce" /\ p.coerce = "throw"
    \/ e.ev = "compare" /\ p.compare = "throw"
    \/ e.ev = "changed" /\ p.changed = "throw"
    \/ e.ev = "slot" /\ env.listener = "throw" /\ env.signals = "rethrow"

----------------------------------------------------------------------------
(* C1: when a set or coerce call of a descriptor with both a changed       *)
(* callback and a notify signal finds the values different, the changed    *)
(* callback has run before the signal is emitted and before any listener   *)
(* runs; the signal is never emitted first.                                *)
C1_ChangedBeforeNotify ==
    (/\ IsWrite(last)
     /\ P.changed # "none" /\ P.notify # "none"
     /\ ~Equivalent(P, last.oldValue, last.newValue))
    => /\ Sel(last.trace, {"changed"}) # <<>>
       /\ Sel(last.trace, {"emit"}) # <<>>
       /\ \A j \in 1..Len(last.trace) :
             last.trace[j].ev \in {"emit", "slot"}
             => \E i \in 1..(j - 1) : last.trace[i].ev = "changed"

C1_Witness ==
    /\ last.op = "coerce"
    /\ P.changed # "none" /\ P.notify # "none"
    /\ ~Equivalent(P, last.oldValue, last.newValue)
    /\ Sel(last.trace, {"changed", "emit", "slot"}) # <<>>

(* C2: after set(m, v) returns, get(m) returns coerce(m, v) when a coerce  *)
(* function is configured and v otherwise, also when that value is equal   *)
(* to the value the slot held before.                                      *)
C2_SetCommits ==
    last.op = "set"
    => get(Enter, P, last.owner).ret =
          (IF P.coerce # "none"
           THEN CoerceFn(P.coerce, last.owner, last.arg)
           ELSE last.arg)

C2_Witness ==
    /\ last.op = "set"
    /\ P.coerce # "none"
    /\ last.arg # last.newValue
    /\ last.oldValue # last.newValue
    /\ Equivalent(P, last.oldValue, last.newValue)
    /\ get(Enter, P, last.owner).ret = last.newValue

(* C3: a set or coerce call whose equality predicate (the configured       *)
(* compare, or === without one) reports the old and new value equivalent   *)
(* runs no changed callback and emits no notification.                     *)
C3_NoNotifyWhenEquivalent ==
    (IsWrite(last) /\ Equivalent(P, last.oldValue, last.newValue))
    => Sel(last.trace, {"changed", "emit", "slot"}) = <<>>

C3_Witness ==
    /\ last.op = "set"
    /\ P.changed # "none" /\ P.notify # "none"
    /\ P.compare = "always"
    /\ last.oldValue # last.newValue
    /\ Sel(last.trace, {"compare"}) # <<>>

(* C4: a set or coerce call whose equality predicate reports the values    *)
(* different runs the changed callback, if configured, exactly once with   *)
(* (owner, oldValue, newValue), and emits the notify signal, if            *)
(* configured, exactly once with the owner as sender and the descriptor's  *)
(* name, the old and the new value as arguments; only the listeners        *)
(* connected for that owner run.                                           *)
C4_NotifyOnceWithArgs ==
    (IsWrite(last) /\ ~Equivalent(P, last.oldValue, last.newValue))
    => /\ Sel(last.trace, {"changed"}) =
             (IF P.changed # "none"
              THEN << Event("changed", last.owner, last.pid, last.oldValue,
                            Stored(ownerData, last.owner, last.pid),
                            FALSE, "") >>
              ELSE <<>>)
       /\ Sel(last.trace, {"emit"}) =
             (IF P.notify # "none"
              THEN << Event("emit", last.owner, last.pid, last.oldValue,
                            Stored(ownerData, last.owner, last.pid),
                            FALSE, P.name) >>
              ELSE <<>>)
       /\ Sel(last.trace, {"slot"}) =
             (IF P.notify # "none" /\ last.owner \in Connected
              THEN << Event("slot", last.owner, last.pid, last.oldValue,
                            Stored(ownerData, last.owner, last.pid),
                            FALSE, P.name) >>
              ELSE <<>>)

C4_Witness ==
    /\ last.op = "set"
    /\ last.owner = 2
    /\ P.changed # "none" /\ P.notify # "none"
    /\ ~Equivalent(P, last.oldValue, last.newValue)
    /\ Len(Sel(last.trace, {"changed"})) = 1
    /\ Len(Sel(last.trace, {"emit"})) = 1
    /\ Len(Sel(last.trace, {"slot"})) = 1

(* C5: a descriptor with neither a changed callback nor a notify signal    *)
(* never has its compare function invoked by set or by coerce.             *)
C5_NoCompareWithoutListeners ==
    (IsWrite(last) /\ P.changed = "none" /\ P.notify = "none")
    => Sel(last.trace, {"compare"}) = <<>>

C5_Witness ==
    /\ last.op = "set"
    /\ P.changed = "none" /\ P.notify = "none"
    /\ P.compare # "none"
    /\ last.oldValue # last.newValue

(* C6: a descriptor with a changed callback, a notify signal or both has   *)
(* its compare function invoked exactly once by each set and each coerce   *)
(* call, with (oldValue, newValue).                                        *)
C6_CompareOnce ==
    (/\ IsWrite(last)
     /\ (P.changed # "none" \/ P.notify # "none")
     /\ P.compare # "none")
    => Sel(last.trace, {"compare"}) =
          << Event("compare", 0, last.pid, last.oldValue,
                   Stored(ownerData, last.owner, last.pid),
                   CompareFn(P.compare, last.oldValue,
                             Stored(ownerData, last.owner, last.pid)),
                   "") >>

C6_Witness ==
    /\ last.op = "coerce"
    /\ P.changed = "none" /\ P.notify # "none"
    /\ P.compare = "strict"
    /\ last.oldValue # last.newValue
    /\ Len(Sel(last.trace, {"compare"})) = 1

(* C7: get never invokes the coerce function, the compare function or the  *)
(* changed callback and never emits the notification, whether it           *)
(* materialises the default of an unset slot or reads a set one.           *)
C7_GetHasNoSideEffects ==
    last.op = "get"
    => Sel(last.trace, {"coerce", "compare", "changed", "emit", "slot"}) = <<>>

C7_Witness ==
    /\ last.op = "get"
    /\ P.coerce # "none" /\ P.compare # "none"
    /\ P.changed # "none" /\ P.notify # "none"
    /\ Sel(last.trace, {"create"}) # <<>>
    /\ IsSet(ownerData, last.owner, last.pid)

(* C8: get on an unset slot returns the default: the factory's result for  *)
(* that owner when a factory is configured (also beside a literal          *)
(* default), else the literal default, else undefined; get on a set slot   *)
(* returns the stored value.                                               *)
C8_GetReturnsDefaultOrStored ==
    [][last'.op = "get"
       => last'.ret =
             (IF IsSet(ownerData, last'.owner, last'.pid)
              THEN Stored(ownerData, last'.owner, last'.pid)
              ELSE IF props[last'.pid].create # "none"
                   THEN CreateFn(props[last'.pid].create, last'.owner)
                   ELSE props[last'.pid].value)]_vars

C8_Witness ==
    /\ last.op = "get"
    /\ P.create # "none" /\ P.value # Undefined
    /\ Sel(last.trace, {"create"}) # <<>>
    /\ last.ret = FactoryValue
    /\ last.ret # P.value

(* C9: the old value set hands to compare, to the changed callback and     *)
(* into the notification is what get would have returned just before the   *)
(* call: the stored value of a set slot, the default (factory before       *)
(* literal) of an unset one.  So of two consecutive sets on one slot the   *)
(* second reports as old value the new value of the first.                 *)
C9_OldValueIsPriorGet ==
    [][last'.op = "set"
       => /\ last'.oldValue =
                get(Enter, props[last'.pid], last'.owner).ret
          /\ \A i \in 1..Len(last'.trace) :
                last'.trace[i].ev \in {"compare", "changed", "emit", "slot"}
                => last'.trace[i].a =
                      get(Enter, props[last'.pid], last'.owner).ret
          /\ (last.op = "set" /\ last.owner = last'.owner
                              /\ last.pid = last'.pid)
             => \A i \in 1..Len(last'.trace) :
                   last'.trace[i].ev \in {"compare", "changed", "emit", "slot"}
                   => last'.trace[i].a = last.newValue]_vars

C9_Witness ==
    /\ last.op = "set"
    /\ P.create # "none" /\ P.value # Undefined
    /\ Sel(last.trace, {"create"}) # <<>>
    /\ Sel(last.trace, {"compare"}) # <<>>
    /\ Sel(last.trace, {"changed"}) # <<>>
    /\ Sel(last.trace, {"emit"}) # <<>>
    /\ \A i \in 1..Len(last.trace) :
          last.trace[i].ev \in {"compare", "changed", "emit", "slot"}
          => last.trace[i].a = FactoryValue

(* C10: set(m1, x) and coerce(m1) leave the slot of every other owner m2   *)
(* of the same descriptor as it was: set or unset, the stored value, and   *)
(* the value get(m2) returns.                                              *)
C10_OtherOwnersUntouched ==
    [][IsWrite(last')
       => \A m2 \in Owners \ {last'.owner} :
             /\ IsSet(ownerData', m2, last'.pid)
                   = IsSet(ownerData, m2, last'.pid)
             /\ IsSet(ownerData, m2, last'.pid)
                => Stored(ownerData', m2, last'.pid)
                      = Stored(ownerData, m2, last'.pid)
             /\ get(EnterOn(ownerData'), props[last'.pid], m2).ret
                   = get(Enter, props[last'.pid], m2).ret]_vars

C10_Witness ==
    /\ IsWrite(last)
    /\ last.owner = 1
    /\ IsSet(ownerData, 1, last.pid)
    /\ IsSet(ownerData, 2, last.pid)
    /\ Stored(ownerData, 1, last.pid) # Stored(ownerData, 2, last.pid)
    /\ Stored(ownerData, 2, last.pid) # DefaultOf(P, 2)

(* C11: get, set and coerce of a descriptor p on an owner leave the slot   *)
(* of every other descriptor q as it was, on that owner and on all others, *)
(* also when p and q were constructed with the same name.                  *)
C11_OtherDescriptorsUntouched ==
    [][last'.op \in {"get", "set", "coerce"}
       => \A q \in Pids \ {last'.pid} : \A m \in Owners :
             /\ IsSet(ownerData', m, q) = IsSet(ownerData, m, q)
             /\ IsSet(ownerData, m, q)
                => Stored(ownerData', m, q) = Stored(ownerData, m, q)]_vars

C11_Witness ==
    /\ last.op = "set"
    /\ \E q \in Pids \ {last.pid} :
          /\ props[q].name = P.name
          /\ IsSet(ownerData, last.owner, q)
          /\ Stored(ownerData, last.owner, q) # last.newValue
          /\ Stored(ownerData, last.owner, q) # last.oldValue
    /\ Stored(ownerData, last.owner, last.pid) = last.newValue

(* C12: after clearPropertyData(m), the next get(m) of every descriptor    *)
(* returns the descriptor's default, computed anew by the factory when     *)
(* there is one, whatever the slot held before; and clearPropertyData      *)
(* itself runs no compare, no changed callback and emits no notification.  *)
C12_ClearRestoresDefaults ==
    last.op = "clear"
    => /\ last.trace = <<>>
       /\ \A pid \in Pids :
             LET g == get(Enter, props[pid], last.owner)
             IN /\ g.ret = DefaultOf(props[pid], last.owner)
                /\ props[pid].create # "none"
                   => Sel(g.st.trace, {"create"}) =
                         << Event("create", last.owner, pid, NoValue, NoValue,
                                  FALSE, "") >>

C12_Witness ==
    /\ last.op = "clear"
    /\ last.dropped # <<>>
    /\ \A pid \in Pids :
          /\ pid \in DOMAIN last.dropped[1]
          /\ last.dropped[1][pid] # DefaultOf(props[pid], last.owner)
          /\ get(Enter, props[pid], last.owner).ret
                = DefaultOf(props[pid], last.owner)
    /\ \E pid \in Pids : props[pid].create # "none"

(* C13: clearPropertyData(m) removes the slots of all descriptors for m at *)
(* once and changes nothing for any other owner: every slot of every other *)
(* owner keeps its state and its value.                                    *)
C13_ClearIsPerOwner ==
    [][last'.op = "clear"
       => /\ \A pid \in Pids : ~IsSet(ownerData', last'.owner, pid)
          /\ \A m2 \in Owners \ {last'.owner} : \A pid \in Pids :
                /\ IsSet(ownerData', m2, pid) = IsSet(ownerData, m2, pid)
                /\ IsSet(ownerData, m2, pid)
                   => Stored(ownerData', m2, pid) = Stored(ownerData, m2, pid)
                /\ get(EnterOn(ownerData'), props[pid], m2).ret
                      = get(Enter, props[pid], m2).ret]_vars

C13_Witness ==
    /\ last.op = "clear"
    /\ last.dropped # <<>>
    /\ DOMAIN last.dropped[1] = Pids
    /\ Cardinality(Pids) = 2
    /\ \A pid \in Pids : ~IsSet(ownerData, last.owner, pid)
    /\ \E m2 \in Owners \ {last.owner} : \A pid \in Pids :
          /\ IsSet(ownerData, m2, pid)
          /\ Stored(ownerData, m2, pid) # DefaultOf(props[pid], m2)

(* C14: clearPropertyData(owner) on an owner without a value table, one    *)
(* never accessed or one already cleared, does not throw and leaves the    *)
(* whole store as it was.                                                  *)
C14_ClearWithoutTable ==
    [][(last'.op = "clear" /\ ~HasHash(ownerData, last'.owner))
       => /\ ~last'.thrown
          /\ ownerData' = ownerData]_vars

C14_Witness ==
    /\ last.op = "clear"
    /\ last.dropped = <<>>
    /\ ~last.thrown
    /\ \E pid \in Pids : <<last.owner, pid>> \in invoked.ever
    /\ ~HasHash(ownerData, last.owner)
    /\ \E m2 \in Owners : HasHash(ownerData, m2)

(* C15: coerce(owner) hands the slot's current value, the stored value of  *)
(* a set slot and the newly computed default of an unset one, to the       *)
(* coerce function, stores what the function returns, and hands that same  *)
(* current value as the old value to compare, to the changed callback and  *)
(* into the notification.                                                  *)
C15_CoerceUsesCurrentValue ==
    [][last'.op = "coerce"
       => LET p == props[last'.pid]
              cur == get(Enter, p, last'.owner).ret
              fns == Sel(last'.trace, {"coerce"})
          IN /\ last'.oldValue = cur
             /\ IF p.coerce # "none"
                THEN /\ Len(fns) = 1
                     /\ fns[1].a = cur
                     /\ fns[1].b = CoerceFn(p.coerce, last'.owner, cur)
                     /\ Stored(ownerData', last'.owner, last'.pid) = fns[1].b
                ELSE /\ fns = <<>>
                     /\ Stored(ownerData', last'.owner, last'.pid) = cur
             /\ \A i \in 1..Len(last'.trace) :
                   last'.trace[i].ev \in {"compare", "changed", "emit", "slot"}
                   => /\ last'.trace[i].a = cur
                      /\ last'.trace[i].b
                            = Stored(ownerData', last'.owner, last'.pid)]_vars

C15_Witness ==
    /\ last.op = "coerce"
    /\ P.coerce # "none"
    /\ Sel(last.trace, {"create"}) = <<>>
    /\ Sel(last.trace, {"coerce"}) # <<>>
    /\ Sel(last.trace, {"compare"}) # <<>>
    /\ Sel(last.trace, {"changed"}) # <<>>
    /\ Sel(last.trace, {"emit"}) # <<>>
    /\ Sel(last.trace, {"coerce"})[1].a = last.oldValue
    /\ Sel(last.trace, {"changed"})[1].a = last.oldValue
    /\ Stored(ownerData, last.owner, last.pid) = last.newValue

(* C16: in both versions of the module, coerce(owner) does what           *)
(* set(owner, oldValue) does, oldValue being the slot's resolved old      *)
(* value: from the same state they leave the same store and run the same  *)
(* factory, coerce, compare, changed and notification callbacks with the  *)
(* same arguments in the same order.                                       *)
C16_CoerceIsSetOfOldValue ==
    [][last'.op = "coerce"
       => LET r == setIn(env.variant, Enter, props[last'.pid], last'.owner,
                         last'.oldValue)
          IN /\ r.st.data = ownerData'
             /\ r.st.trace = last'.trace
             /\ r.oldValue = last'.oldValue
             /\ r.newValue = last'.newValue]_vars

C16_Witness ==
    /\ last.op = "coerce"
    /\ env.variant = "changedSignal"
    /\ P.coerce # "none" /\ P.changed # "none"
    /\ last.oldValue # last.newValue
    /\ Len(last.trace) = 5
    /\ [i \in 1..5 |-> last.trace[i].ev]
          = <<"coerce", "compare", "changed", "emit", "slot">>
    /\ Stored(ownerData, last.owner, last.pid) = last.newValue

(* C18 as stated: while set(owner, v) runs on an unset slot, the slot is   *)
(* still unset when the coerce function runs: the default has not been     *)
(* written.                                                                *)
C18_DefaultNotWritten ==
    [][(last'.op = "set" /\ ~IsSet(ownerData, last'.owner, last'.pid))
       => \A i \in 1..Len(last'.trace) :
             last'.trace[i].ev = "coerce" => ~last'.trace[i].res]_vars

(* C18: while set(owner, v) or coerce(owner) runs on an unset slot, the    *)
(* version of the module with Property.changedSignal has not written the   *)
(* default when the coerce function runs, and the slot is still unset; the *)
(* version with the notify option has written it, and the slot is set.     *)
C18_DefaultWrittenByFirstVersionOnly ==
    [][(IsWrite(last') /\ ~IsSet(ownerData, last'.owner, last'.pid))
       => \A i \in 1..Len(last'.trace) :
             last'.trace[i].ev = "coerce"
             => last'.trace[i].res = (env.variant = "notify")]_vars

C18_Witness ==
    /\ last.op = "set"
    /\ env.variant = "changedSignal"
    /\ Len(last.trace) >= 2
    /\ last.trace[1].ev = "create"
    /\ last.trace[2].ev = "coerce" /\ ~last.trace[2].res
    /\ last.oldValue = FactoryValue
    /\ Stored(ownerData, last.owner, last.pid) = last.newValue
    /\ last.newValue # last.oldValue

(* C19: whenever set or coerce runs the changed callback or a listener of *)
(* the notification, the new value is already in the slot: a get(owner)   *)
(* of the same descriptor made from inside the callback returns the        *)
(* newValue the callback was handed, never the old value, and computes no  *)
(* default.                                                                *)
C19_CallbacksSeeNewValue ==
    IsWrite(last)
    => \A i \in 1..Len(last.trace) :
          /\ last.trace[i].ev \in {"changed", "slot"}
             /\ (IF last.trace[i].ev = "changed"
                 THEN P.changed = "get"
                 ELSE env.listener = "get")
             => /\ i < Len(last.trace)
                /\ last.trace[i + 1].ev = "read"
          /\ last.trace[i].ev = "read"
             => /\ i > 1
                /\ last.trace[i - 1].ev \in {"changed", "slot"}
                /\ last.trace[i].a = last.trace[i - 1].b
                /\ last.trace[i].a = last.newValue

C19_Witness ==
    /\ last.op = "set"
    /\ P.changed = "get" /\ env.listener = "get"
    /\ IsSet(ownerData, last.owner, last.pid)
    /\ last.oldValue # last.newValue
    /\ Len(last.trace) >= 5
    /\ LET n == Len(last.trace)
       IN /\ [i \in 1..5 |-> last.trace[n - 5 + i].ev]
                = <<"changed", "read", "emit", "slot", "read">>
          /\ last.trace[n - 3].a = last.newValue
          /\ last.trace[n].a = last.newValue
          /\ last.trace[n - 4].a = last.oldValue

(* C20 as stated: when a callback throws during set or coerce and the     *)
(* failure reaches the caller, the slot holds the new value of the call.   *)
(* (No descriptor here stores undefined, the newValue of a call whose      *)
(* coerce function threw.)                                                 *)
C20_ThrowAfterCommit ==
    (IsWrite(last) /\ last.thrown)
    => /\ IsSet(ownerData, last.owner, last.pid)
       /\ Stored(ownerData, last.owner, last.pid) = last.newValue

(* C20: a set or coerce call fails exactly when one of its callbacks       *)
(* throws out of it.  When that is the compare function, the changed       *)
(* callback or a listener, the table is not rolled back: the slot holds    *)
(* the new value, stored before these ran; it does so too when the signal  *)
(* library catches a listener's exception.  When it is the coerce          *)
(* function, no new value has been stored: the slot is unset or holds the  *)
(* old value of the call.                                                  *)
C20_NoRollbackOnceCommitted ==
    IsWrite(last)
    => LET n == Len(last.trace)
       IN /\ last.thrown <=> (n > 0 /\ Threw(P, last.trace[n]))
          /\ \A i \in 1..(n - 1) : ~Threw(P, last.trace[i])
          /\ (last.thrown /\ last.trace[n].ev # "coerce")
             => /\ IsSet(ownerData, last.owner, last.pid)
                /\ Stored(ownerData, last.owner, last.pid) = last.newValue
                /\ last.newValue =
                      (LET v == IF last.op = "set" THEN last.arg
                                                  ELSE last.oldValue
                       IN IF P.coerce # "none"
                          THEN CoerceFn(P.coerce, last.owner, v)
                          ELSE v)
          /\ (last.thrown /\ last.trace[n].ev = "coerce")
             => IF env.variant = "notify"
                THEN /\ IsSet(ownerData, last.owner, last.pid)
                     /\ Stored(ownerData, last.owner, last.pid)
                           = last.oldValue
                ELSE \/ ~IsSet(ownerData, last.owner, last.pid)
                     \/ Stored(ownerData, last.owner, last.pid)
                           = last.oldValue
          /\ (~last.thrown /\ Sel(last.trace, {"slot"}) # <<>>)
             => Stored(ownerData, last.owner, last.pid) = last.newValue

C20_Witness ==
    /\ last.op = "set"
    /\ last.thrown
    /\ P.changed = "throw"
    /\ last.trace[Len(last.trace)].ev = "changed"
    /\ last.oldValue # last.newValue
    /\ last.newValue # NoValue
    /\ IsSet(ownerData, last.owner, last.pid)
    /\ Stored(ownerData, last.owner, last.pid) = last.newValue
    /\ Sel(last.trace, {"emit"}) = <<>>

C22_FactoryPerUnsetAccess ==
    [][(last'.op \in {"get", "set", "coerce"}
        /\ props[last'.pid].create # "none")
       => LET made == Sel(last'.trace, {"create"})
              default == IF last'.op = "get" THEN last'.ret
                                             ELSE last'.oldValue
          IN IF IsSet(ownerData, last'.owner, last'.pid)
             THEN made = <<>> /\ tick' = tick
             ELSE /\ made = << Event("create", last'.owner, last'.pid,
                                     NoValue, NoValue, FALSE, "") >>
                  /\ tick' = tick + 1
                  /\ default = Num(TickStart + tick)
                  /\ \A m2 \in Owners : \A pid \in Pids :
                        IsSet(ownerData, m2, pid)
                        => Stored(ownerData, m2, pid) # default]_vars

C22_Witness ==
    /\ last.op = "get"
    /\ P.create = "tick"
    /\ Sel(last.trace, {"create"}) # <<>>
    /\ tick = 3
    /\ last.ret = Num(TickStart + 2)
    /\ \E m2 \in Owners \ {last.owner} :
          /\ IsSet(ownerData, m2, last.pid)
          /\ Stored(ownerData, m2, last.pid) = Num(TickStart)

C24_CompareSeesCoercedValue ==
    [][last'.op = "set"
       => LET p == props[last'.pid]
              old == get(Enter, p, last'.owner).ret
              new == IF p.coerce # "none"
                     THEN CoerceFn(p.coerce, last'.owner, last'.arg)
                     ELSE last'.arg
              told == Sel(last'.trace, {"changed", "emit", "slot"})
          IN /\ \A i \in 1..Len(last'.trace) :
                   last'.trace[i].ev = "compare"
                   => last'.trace[i].a = old /\ last'.trace[i].b = new
             /\ Stored(ownerData', last'.owner, last'.pid) = new
             /\ Equivalent(p, old, new) => told = <<>>
             /\ (/\ last.op = "set" /\ last.owner = last'.owner
                 /\ last.pid = last'.pid
                 /\ Sel(last.trace, {"changed", "emit", "slot"}) = <<>>
                 /\ ~Equivalent(p, last.newValue, new))
                => /\ old = last.newValue
                   /\ Len(told) = (IF p.changed # "none" THEN 1 ELSE 0)
                                  + (IF p.notify # "none" THEN 2 ELSE 0)
                   /\ \A i \in 1..Len(told) :
                         /\ told[i].owner = last'.owner
                         /\ told[i].a = last.newValue
                         /\ told[i].b = new]_vars

C24_Witness ==
    /\ last.op = "set"
    /\ P.value = Num(0) /\ P.create = "none" /\ P.coerce = "max0"
    /\ P.compare = "strict" /\ P.changed # "none" /\ P.notify # "none"
    /\ last.arg = Num(0 - 1)
    /\ last.oldValue = Num(0)
    /\ Stored(ownerData, last.owner, last.pid) = Num(0)
    /\ Sel(last.trace, {"compare"})
          = << Event("compare", 0, last.pid, Num(0), Num(0), TRUE, "") >>
    /\ Sel(last.trace, {"changed", "emit", "slot"}) = <<>>

(* C25: descriptor ids are minted at construction from a counter that     *)
(* only grows: the id of a new descriptor is the id of no descriptor       *)
(* constructed before it, there are as many ids as constructions, and get, *)
(* set, coerce and clearPropertyData leave the counter and every           *)
(* descriptor's id as they are.                                            *)
C25_IdsAreUnique ==
    [][/\ nextId' >= nextId
       /\ Cardinality(DOMAIN props') = nextId'
       /\ \A pid \in Pids :
             pid \in DOMAIN props' /\ props'[pid].pid = props[pid].pid
       /\ last'.op = "new"
          => /\ nextId' > nextId
             /\ last'.pid \notin Pids
             /\ DOMAIN props' = Pids \cup {last'.pid}
             /\ props'[last'.pid].pid = last'.pid
       /\ last'.op # "new" => nextId' = nextId /\ props' = props]_vars

C25_Witness ==
    /\ Cardinality(Pids) = MaxProps
    /\ nextId = MaxProps
    /\ \A p \in Pids, q \in Pids : props[p].pid = props[q].pid => p = q
    /\ \E p \in Pids, q \in Pids : p # q /\ props[p].name = props[q].name
    /\ last.op \in {"get", "set", "coerce", "clear"}
    /\ \E owner \in Owners, pid \in Pids : IsSet(ownerData, owner, pid)

(* C26: the descriptor has a read-only property notify: reading it gives  *)
(* the signal handed to the constructor, and assigning it throws and       *)
(* leaves it as it was.                                                    *)
C26_NotifyIsReadOnly ==
    [][/\ last'.op = "new"
          => read(props'[last'.pid], "notify") = SignalOf(last'.arg)
       /\ (last'.op = "assign" /\ last'.arg.key = "notify")
          => /\ last'.thrown
             /\ read(props'[last'.pid], "notify")
                   = read(props[last'.pid], "notify")]_vars

C26_Witness ==
    /\ last.op = "assign"
    /\ last.arg = [key |-> "notify", value |-> "null"]
    /\ ~last.thrown
    /\ P.notify = "sig"
    /\ read(P, "notify") = "null"

(* C27: the name of a descriptor is the name handed to the constructor:    *)
(* assigning p.name throws and changes nothing, and no construction, get,  *)
(* set, coerce, clearPropertyData or other assignment changes the name of  *)
(* a descriptor.                                                           *)
C27_NameIsReadOnly ==
    [][/\ \A pid \in Pids :
             read(props'[pid], "name") = read(props[pid], "name")
       /\ last'.op = "new"
          => read(props'[last'.pid], "name") = last'.arg.name
       /\ (last'.op = "assign" /\ last'.arg.key = "name")
          => last'.thrown /\ props' = props]_vars

C27_Witness ==
    /\ last.op = "assign"
    /\ last.arg = [key |-> "name", value |-> "q"]
    /\ last.thrown
    /\ read(P, "name") = "p"
    /\ "notify" \in DOMAIN P.own
    /\ \E owner \in Owners : IsSet(ownerData, owner, last.pid)

(* C28: in the version with Property.changedSignal, a set or coerce whose  *)
(* old and new value the equality predicate tells apart emits the signal   *)
(* once, bound to the owner as sender, with the descriptor, the old value  *)
(* and the new value as arguments, with or without a changed callback; a   *)
(* set or coerce whose values compare equal emits nothing.                 *)
C28_ChangedSignalEmitted ==
    (env.variant = "changedSignal" /\ IsWrite(last) /\ ~last.thrown)
    => Sel(last.trace, {"emit", "slot"})
          = IF Equivalent(P, last.oldValue, last.newValue)
            THEN <<>>
            ELSE << Event("emit", last.owner, last.pid, last.oldValue,
                          last.newValue, TRUE, ""),
                    Event("slot", last.owner, last.pid, last.oldValue,
                          last.newValue, TRUE, "") >>

C28_Witness ==
    /\ env.variant = "changedSignal"
    /\ last.op = "set"
    /\ P.changed = "none"
    /\ last.oldValue = DefaultOf(P, last.owner)
    /\ last.newValue # last.oldValue
    /\ Len(Sel(last.trace, {"emit"})) = 1
    /\ ArgsOf(Sel(last.trace, {"emit"})[1])
          = [property |-> last.pid, name |-> "", oldValue |-> last.oldValue,
             newValue |-> last.newValue]

(* C29: the steps of one set or coerce call run in one order: the default *)
(* is computed (only when the slot is unset; the first version stores it   *)
(* at once), then the coerce function runs, then the new value is stored,  *)
(* then the equality predicate runs, then the changed callback, then the   *)
(* notification with its listeners; each step has returned before the     *)
(* next begins, and the value stored is the one the coerce function        *)
(* returned and the one compared and told.                                 *)
C29_StepsInOrder ==
    [][IsWrite(last')
       => LET p == props[last'.pid]
              tr == last'.trace
              unset == ~IsSet(ownerData, last'.owner, last'.pid)
              old == last'.oldValue
              new == last'.newValue
              If(c, ks) == IF c THEN ks ELSE <<>>
              told == ~Equivalent(p, old, new)
          IN /\ Kinds(tr)
                  = If(unset /\ p.create # "none", <<"create">>)
                    \o If(unset /\ env.variant = "notify", <<"store">>)
                    \o If(p.coerce # "none", <<"coerce">>)
                    \o <<"store">>
                    \o <<"compare">>
                    \o If(told /\ p.changed # "none", <<"changed">>)
                    \o If(told, <<"emit", "slot">>)
             /\ \A i \in 1..Len(tr) :
                   /\ tr[i].ev = "coerce" => tr[i].b = new
                   /\ tr[i].ev \in {"compare", "changed", "emit", "slot"}
                      => tr[i].a = old /\ tr[i].b = new
             /\ LET stores == Sel(tr, {"store"})
                IN /\ stores[Len(stores)].b = new
                   /\ Len(stores) = 2 => stores[1].b = old
             /\ Stored(ownerData', last'.owner, last'.pid) = new]_vars

C29_Witness ==
    /\ last.op = "set"
    /\ P.create # "none" /\ P.coerce # "none" /\ P.changed # "none"
    /\ Kinds(last.trace)
          = <<"create", "store", "coerce", "store", "compare", "changed",
              "emit", "slot">>
    /\ last.trace[2].b = last.oldValue
    /\ last.trace[3].b = last.newValue
    /\ last.trace[4].b = last.newValue

(* C30: when a top-level set or coerce has returned, also one whose       *)
(* changed callback or listener called set on the same slot, the newValue  *)
(* of the notification emitted last is the value get(owner) returns, and   *)
(* the oldValue of every notification is the newValue of the one emitted   *)
(* before it.                                                              *)
C30_NotificationsFollowStore ==
    IsWrite(last)
    => LET em == Sel(last.trace, {"emit"})
       IN /\ em # <<>>
             => em[Len(em)].b = get(Enter, P, last.owner).ret
          /\ \A i \in 2..Len(em) : em[i].a = em[i - 1].b

C30_Witness ==
    /\ last.op = "set"
    /\ P.changed = "set"
    /\ env.listener = "log"
    /\ LET told == Sel(last.trace, {"changed", "emit", "slot"})
       IN /\ Kinds(told)
                = <<"changed", "changed", "emit", "slot", "emit", "slot">>
          /\ told[3].b = ResetValue
          /\ told[5].b = last.newValue
    /\ last.newValue # ResetValue
    /\ get(Enter, P, last.owner).ret = ResetValue

(* C31: set and coerce write the new value into the table the owner has   *)
(* when they write: also when the default factory or the coerce function   *)
(* called clearPropertyData(owner) during the call, the slot holds the new *)
(* value afterwards and the following get(owner) returns it.               *)
C31_WriteSurvivesClear ==
    IsWrite(last)
    => /\ IsSet(ownerData, last.owner, last.pid)
       /\ Stored(ownerData, last.owner, last.pid) = last.newValue
       /\ get(Enter, P, last.owner).ret = last.newValue

C31_Witness ==
    /\ last.op = "set"
    /\ P.create = "none" /\ P.coerce = "clear"
    /\ Kinds(Sel(last.trace, {"coerce", "clear", "emit"}))
          = <<"coerce", "clear", "emit">>
    /\ last.newValue # DefaultOf(P, last.owner)
    /\ ~IsSet(ownerData, last.owner, last.pid)
    /\ get(Enter, P, last.owner).ret = DefaultOf(P, last.owner)

(* C32 as stated: when the coerce function throws during set or coerce,   *)
(* the slot is as it was before the call, an unset slot unset and a set    *)
(* slot with its value, and no compare, changed callback or notification   *)
(* runs.                                                                   *)
C32_CoerceThrowLeavesSlot ==
    [][(IsWrite(last') /\ last'.thrown
        /\ last'.trace[Len(last'.trace)].ev = "coerce")
       => /\ IsSet(ownerData', last'.owner, last'.pid)
                = IsSet(ownerData, last'.owner, last'.pid)
          /\ IsSet(ownerData, last'.owner, last'.pid)
             => Stored(ownerData', last'.owner, last'.pid)
                   = Stored(ownerData, last'.owner, last'.pid)
          /\ Sel(last'.trace, {"compare", "changed", "emit", "slot"})
                = <<>>]_vars

(* C32: when the coerce function throws during set or coerce, no new value *)
(* is stored and no compare, changed callback or notification runs.  A set *)
(* slot keeps its value.  An unset slot stays unset in the second version  *)
(* of the module; in the first, it holds the default, which set and coerce *)
(* store before they call the coerce function.                             *)
C32_CoerceThrowStoresNoNewValue ==
    [][(IsWrite(last') /\ last'.thrown
        /\ last'.trace[Len(last'.trace)].ev = "coerce")
       => LET was == IsSet(ownerData, last'.owner, last'.pid)
              p == props[last'.pid]
          IN /\ was
                => /\ IsSet(ownerData', last'.owner, last'.pid)
                   /\ Stored(ownerData', last'.owner, last'.pid)
                         = Stored(ownerData, last'.owner, last'.pid)
             /\ (~was /\ env.variant = "changedSignal")
                => ~IsSet(ownerData', last'.owner, last'.pid)
             /\ (~was /\ env.variant = "notify")
                => /\ IsSet(ownerData', last'.owner, last'.pid)
                   /\ Stored(ownerData', last'.owner, last'.pid)
                         = DefaultOf(p, last'.owner)
             /\ Sel(last'.trace, {"compare", "changed", "emit", "slot"})
                   = <<>>]_vars

C32_Witness ==
    /\ last.op = "set"
    /\ last.thrown
    /\ env.variant = "notify"
    /\ P.coerce = "throw"
    /\ Kinds(last.trace) = <<"coerce">>
    /\ last.trace[1].a = last.arg
    /\ last.oldValue = DefaultOf(P, last.owner)
    /\ IsSet(ownerData, last.owner, last.pid)
    /\ Stored(ownerData, last.owner, last.pid) = DefaultOf(P, last.owner)

(* C33: when the changed callback throws during set or coerce, the signal *)
(* is not emitted and no listener runs in that call, the slot holds the    *)
(* new value of the call, and the call that follows does not emit the      *)
(* change that went untold.                                                *)
C33_ChangedThrowSilencesSignal ==
    [][LET failed(call) ==
               /\ IsWrite(call)
               /\ \E i \in 1..Len(call.trace) :
                     /\ call.trace[i].ev = "changed"
                     /\ Threw(props[call.pid], call.trace[i])
       IN /\ failed(last')
             => /\ Sel(last'.trace, {"emit", "slot"}) = <<>>
                /\ IsSet(ownerData', last'.owner, last'.pid)
                /\ Stored(ownerData', last'.owner, last'.pid)
                      = last'.newValue
          /\ failed(last)
             => \A i \in 1..Len(last'.trace) :
                   (/\ last'.trace[i].ev \in {"emit", "slot"}
                    /\ last'.trace[i].pid = last.pid
                    /\ last'.owner = last.owner)
                   => <<last'.trace[i].a, last'.trace[i].b>>
                         # <<last.oldValue, last.newValue>>]_vars

C33_Witness ==
    /\ last.op = "set"
    /\ last.thrown
    /\ P.changed = "throw"
    /\ last.trace[Len(last.trace)].ev = "changed"
    /\ last.newValue # last.oldValue
    /\ Stored(ownerData, last.owner, last.pid) = last.newValue
    /\ Sel(last.trace, {"emit", "slot"}) = <<>>

(* C34: a set slot stays set until clearPropertyData is called for its    *)
(* owner: no get, set or coerce, on whichever owner, completed or left by  *)
(* the exception of a callback, removes an entry or a table.               *)
C34_OnlyClearUnsets ==
    [][last'.op \in {"get", "set", "coerce"}
       => \A owner \in Owners :
             /\ HasHash(ownerData, owner) => HasHash(ownerData', owner)
             /\ \A pid \in Pids :
                   IsSet(ownerData, owner, pid)
                   => IsSet(ownerData', owner, pid)]_vars

C34_Witness ==
    /\ last.op \in {"set", "coerce"}
    /\ last.thrown
    /\ IsSet(ownerData, last.owner, last.pid)
    /\ \E owner \in Owners :
          owner # last.owner /\ IsSet(ownerData, owner, last.pid)

(* C35 as stated: the factory is called only for an unset slot, at most   *)
(* once in a call, and so at most once in the calls made on a slot between *)
(* two clearPropertyData calls: of two calls that follow one another on a  *)
(* slot, not both call the factory.                                        *)
C35_FactoryOncePerClear ==
    [][last'.op \in {"get", "set", "coerce"}
       => /\ Len(Sel(last'.trace, {"create"})) <= 1
          /\ IsSet(ownerData, last'.owner, last'.pid)
             => Sel(last'.trace, {"create"}) = <<>>
          /\ (/\ last.op \in {"get", "set", "coerce"}
              /\ last.owner = last'.owner /\ last.pid = last'.pid
              /\ Sel(last.trace, {"create"}) # <<>>)
             => Sel(last'.trace, {"create"}) = <<>>]_vars

(* C35: the factory is called only for an unset slot and at most once in a *)
(* call; a get, set or coerce that returns without an exception leaves the *)
(* slot set, so the calls that return between two clearPropertyData calls  *)
(* call the factory at most once.  A call that the coerce function throws  *)
(* out of leaves an unset slot set in the first version of the module and  *)
(* unset in the second, where the next call computes the default again.    *)
C35_FactoryOnlyWhileUnset ==
    [][last'.op \in {"get", "set", "coerce"}
       => /\ Len(Sel(last'.trace, {"create"})) <= 1
          /\ Sel(last'.trace, {"create"}) # <<>>
                <=> ~IsSet(ownerData, last'.owner, last'.pid)
          /\ IsSet(ownerData', last'.owner, last'.pid)
                <=> \/ IsSet(ownerData, last'.owner, last'.pid)
                    \/ ~last'.thrown
                    \/ env.variant = "notify"]_vars

C35_Witness ==
    /\ env.variant = "changedSignal"
    /\ last.op \in {"set", "coerce"}
    /\ last.thrown
    /\ P.create # "none" /\ P.coerce = "throw"
    /\ Kinds(last.trace) = <<"create", "coerce">>
    /\ ~IsSet(ownerData, last.owner, last.pid)

(* C36: get is idempotent: a get(owner) that directly follows a           *)
(* get(owner) of the same descriptor returns the same value, calls no      *)
(* user function, and leaves the store as it is; the first get of an       *)
(* unset slot has stored the default it returned.                          *)
C36_GetIsIdempotent ==
    last.op = "get"
    => LET again == get(Enter, P, last.owner)
       IN /\ again.ret = last.ret
          /\ again.st.data = ownerData
          /\ again.st.trace = <<>>
          /\ again.st.tick = tick
          /\ IsSet(ownerData, last.owner, last.pid)
          /\ Stored(ownerData, last.owner, last.pid) = last.ret

C36_Witness ==
    /\ last.op = "get"
    /\ P.create = "tick"
    /\ Kinds(last.trace) = <<"create">>
    /\ tick > 1
    /\ last.ret = Num(TickStart + tick - 1)
    /\ get(Enter, P, last.owner).ret = last.ret

(* C37 as stated: with an idempotent coerce function, a coerce(owner)     *)
(* that directly follows a coerce(owner) leaves the stored value as it is  *)
(* and runs no changed callback and no notification.                       *)
C37_CoerceIsIdempotent ==
    last.op = "coerce"
    => LET again == coerceIn(env.variant, Enter, P, last.owner)
       IN /\ again.st.data = ownerData
          /\ Sel(again.st.trace, {"changed", "emit", "slot"}) = <<>>

(* C37: with an idempotent coerce function, a coerce(owner) that directly  *)
(* follows a coerce(owner) stores the value the slot holds already.  It    *)
(* runs no changed callback and no notification when the equality          *)
(* predicate reports that value equivalent to itself; it runs them again   *)
(* when the predicate does not, as === does not for NaN.                   *)
C37_SecondCoerceStoresSameValue ==
    last.op = "coerce"
    => LET again == coerceIn(env.variant, Enter, P, last.owner)
           v == Stored(ownerData, last.owner, last.pid)
           told == Sel(again.st.trace, {"changed", "emit", "slot"})
       IN /\ again.st.data = ownerData
          /\ again.oldValue = v /\ again.newValue = v
          /\ Equivalent(P, v, v) => told = <<>>
          /\ ~Equivalent(P, v, v)
             => /\ v = NaN
                /\ Kinds(told)
                      = (IF P.changed # "none" THEN <<"changed">> ELSE <<>>)
                        \o <<"emit", "slot">>

C37_Witness ==
    /\ last.op = "coerce"
    /\ P.coerce = "max0" /\ P.compare = "strict" /\ P.changed # "none"
    /\ Stored(ownerData, last.owner, last.pid) = NaN
    /\ Kinds(Sel(coerceIn(env.variant, Enter, P, last.owner).st.trace,
                 {"changed", "emit", "slot"}))
          = <<"changed", "emit", "slot">>

============================================================================
